---- MODULE Spec2Model ----
(***************************************************************************)
(* NtexFileShare (src/src/main.rs): a command-line wrapper that makes sure *)
(* the shared directory exists, then mounts an ntex_files::Files service   *)
(* (listing enabled, Content-Disposition disabled) under a URL prefix on a *)
(* pool of workers.                                                        *)
(*                                                                         *)
(* The model covers what main.rs itself does: argument values, the         *)
(* existence check and create_dir_all at startup, the construction of the  *)
(* server, bind, the per-worker application factory and the effect of the  *)
(* two builder options on the responses for files and directories.  How    *)
(* ntex_files maps a URL path to a filesystem object, enumerates a         *)
(* directory or classifies errors is not part of this source and is not    *)
(* modelled: a served file or directory is an input of the Serve actions.  *)
(* The filesystem is changed by this process only.                         *)
(***************************************************************************)
EXTENDS Integers, Sequences, FiniteSets, TLC

\* ------------------------------------------------------------------ bounds
MaxWorkers == 2

\* ------------------------------------------------------------- input sets
\* A path is the sequence of its components; <<>> is the empty string "".
FileDirs == { <<>>, <<"files">>, <<"data", "files">> }

UrlPaths == { "/download/files", "/f" }

\* Every non-empty prefix of a candidate file_dir.
Paths == UNION { { SubSeq(d, 1, n) : n \in 1..Len(d) } : d \in FileDirs }

\* What a path names: nothing, a directory (or a link to one), a regular
\* file, or a symbolic link whose target is missing.
Kinds == { "absent", "dir", "file", "dangling" }

\* File types of the files a request may name (by extension).
Exts == { "txt", "html", "png", "pdf", "bin" }

None == [none |-> TRUE]

\* ------------------------------------------------------------------ state
VARIABLES
    args,       \* the parsed Args (file_dir, url_path, worker)
    fs,         \* kind of every path in Paths
    writable,   \* may this process create entries in the existing directories
    pc,         \* position of main
    log,        \* the log events main has emitted
    captured,   \* the (url_path, file_dir) clones moved into the factory closure
    instance,   \* per worker: the Files service its factory call built
    resp        \* per worker: the last response it produced

vars == << args, fs, writable, pc, log, captured, instance, resp >>

Workers == 1..MaxWorkers

\* ------------------------------------------------------- filesystem (std)
Parent(p) == SubSeq(p, 1, Len(p) - 1)

\* Path::exists(): follows links; "" and a dangling link do not exist.
PathExists(f, p) == p /= <<>> /\ f[p] \in { "dir", "file" }

\* Path::is_dir()
PathIsDir(f, p) == p /= <<>> /\ f[p] = "dir"

\* mkdir(2) of one component, relative to the current directory.
mkdir(f, p, w) ==
    IF Len(p) > 1 /\ f[Parent(p)] \in { "absent", "dangling" }
    THEN [err |-> "NotFound", fs |-> f]
    ELSE IF Len(p) > 1 /\ f[Parent(p)] = "file"
    THEN [err |-> "NotADirectory", fs |-> f]
    ELSE IF f[p] /= "absent"
    THEN [err |-> "AlreadyExists", fs |-> f]
    ELSE IF ~w
    THEN [err |-> "PermissionDenied", fs |-> f]
    ELSE [err |-> "Ok", fs |-> [f EXCEPT ![p] = "dir"]]

\* std::fs::create_dir_all: "" is Ok and creates nothing; otherwise mkdir,
\* and on NotFound create the parent first and mkdir again; any other error
\* is Ok exactly when the path is a directory already.
RECURSIVE create_dir_all(_, _, _)
create_dir_all(f, p, w) ==
    IF p = <<>> THEN [ok |-> TRUE, fs |-> f]
    ELSE LET r1 == mkdir(f, p, w) IN
         IF r1.err = "Ok" THEN [ok |-> TRUE, fs |-> r1.fs]
         ELSE IF r1.err /= "NotFound" THEN [ok |-> PathIsDir(f, p), fs |-> f]
         ELSE LET pr == create_dir_all(f, Parent(p), w) IN
              IF ~pr.ok THEN pr
              ELSE LET r2 == mkdir(pr.fs, p, w) IN
                   IF r2.err = "Ok" THEN [ok |-> TRUE, fs |-> r2.fs]
                   ELSE [ok |-> PathIsDir(pr.fs, p), fs |-> pr.fs]

\* ------------------------------------------------------- the Files builder
\* Files::new(&url_path, &file_dir): listing off, Content-Disposition on.
FilesNew(url, dir) ==
    [ path |-> url, directory |-> dir,
      show_index |-> FALSE, content_disposition |-> TRUE ]

show_files_listing(files) == [files EXCEPT !.show_index = TRUE]

\* The option call left out: the flag stays as Files::new set it.
keep_content_disposition(files) == files

disable_content_disposition(files) == [files EXCEPT !.content_disposition = FALSE]

\* The application factory: the service each worker mounts.
Factory(cap) ==
    disable_content_disposition(show_files_listing(FilesNew(cap.url_path, cap.file_dir)))

\* The Content-Disposition header of a file response: absent when the option
\* is disabled; otherwise inline for types a browser renders, else attachment.
ContentDisposition(files, ext) ==
    IF ~files.content_disposition THEN "none"
    ELSE IF ext \in { "txt", "html", "png" } THEN "inline"
    ELSE "attachment"

\* ------------------------------------------------------------------- Init
FsOk(f) ==
    \A p \in Paths : (Len(p) > 1 /\ f[p] /= "absent") => f[Parent(p)] = "dir"

Init ==
    /\ args \in [ file_dir : FileDirs, url_path : UrlPaths, worker : Workers ]
    /\ fs \in { f \in [Paths -> Kinds] : FsOk(f) }
    /\ writable \in BOOLEAN
    /\ pc = "check"
    /\ log = << >>
    /\ captured = None
    /\ instance = [w \in Workers |-> None]
    /\ resp = [w \in Workers |-> None]

\* ---------------------------------------------------------------- actions
\* main.rs:78  if !Path::new(&args.file_dir).exists()
CheckExists ==
    /\ pc = "check"
    /\ IF PathExists(fs, args.file_dir)
       THEN /\ pc' = "announce"
            /\ log' = log
       ELSE /\ pc' = "create"
            /\ log' = Append(log, "warn_creating")
    /\ UNCHANGED << args, fs, writable, captured, instance, resp >>

\* A creation whose error is dropped instead of panicking.
CreateDirIgnoringError ==
    /\ pc = "create"
    /\ LET r == create_dir_all(fs, args.file_dir, writable) IN
        /\ fs' = r.fs
        /\ pc' = "announce"
        /\ log' = Append(log, "info_created")
    /\ UNCHANGED << args, writable, captured, instance, resp >>

\* main.rs:80-82  create_dir_all(..).unwrap_or_else(|e| panic!(..))
CreateDir ==
    /\ pc = "create"
    /\ LET r == create_dir_all(fs, args.file_dir, writable) IN
        /\ fs' = r.fs
        /\ IF r.ok
           THEN /\ pc' = "announce"
                /\ log' = Append(log, "info_created")
           ELSE /\ pc' = "panicked"
                /\ log' = log
    /\ UNCHANGED << args, writable, captured, instance, resp >>

\* main.rs:86-88  the three address lines
Announce ==
    /\ pc = "announce"
    /\ log' = Append(log, "info_addresses")
    /\ pc' = "construct"
    /\ UNCHANGED << args, fs, writable, captured, instance, resp >>

\* main.rs:91-104  clone the values, move them into the factory closure
Construct ==
    /\ pc = "construct"
    /\ captured' = [ url_path |-> args.url_path, file_dir |-> args.file_dir ]
    /\ pc' = "bind"
    /\ UNCHANGED << args, fs, writable, log, instance, resp >>

\* main.rs:105-106  .workers(worker).bind(("0.0.0.0", port))?
Bind ==
    /\ pc = "bind"
    /\ \E ok \in BOOLEAN : pc' = IF ok THEN "run" ELSE "bind_failed"
    /\ UNCHANGED << args, fs, writable, log, captured, instance, resp >>

\* main.rs:107-108  .run().await
Run ==
    /\ pc = "run"
    /\ pc' = "serving"
    /\ UNCHANGED << args, fs, writable, log, captured, instance, resp >>

\* main.rs:96-104  a worker calls the factory closure
StartWorker(w) ==
    /\ pc = "serving"
    /\ w <= args.worker
    /\ instance[w] = None
    /\ instance' = [instance EXCEPT ![w] = Factory(captured)]
    /\ UNCHANGED << args, fs, writable, pc, log, captured, resp >>

\* A worker answers a request that names a regular file under the root.
ServeFile(w, ext) ==
    /\ pc = "serving"
    /\ instance[w] /= None
    /\ PathIsDir(fs, instance[w].directory)
    /\ resp' = [resp EXCEPT ![w] =
                  [ status |-> 200, body |-> "file", ext |-> ext,
                    content_disposition |-> ContentDisposition(instance[w], ext) ]]
    /\ UNCHANGED << args, fs, writable, pc, log, captured, instance >>

\* A worker answers a request that names a directory under the root.
ServeDirectory(w) ==
    /\ pc = "serving"
    /\ instance[w] /= None
    /\ PathIsDir(fs, instance[w].directory)
    /\ instance[w].show_index
    /\ resp' = [resp EXCEPT ![w] =
                  [ status |-> 200, body |-> "listing", ext |-> "html",
                    content_disposition |-> "none" ]]
    /\ UNCHANGED << args, fs, writable, pc, log, captured, instance >>

Next ==
    \/ CheckExists
    \/ CreateDir
    \/ Announce
    \/ Construct
    \/ Bind
    \/ Run
    \/ \E w \in Workers : StartWorker(w)
    \/ \E w \in Workers, ext \in Exts : ServeFile(w, ext)
    \/ \E w \in Workers : ServeDirectory(w)

Spec == Init /\ [][Next]_vars

\* ------------------------------------------------------------------ types
TypeOK ==
    /\ args \in [ file_dir : FileDirs, url_path : UrlPaths, worker : Workers ]
    /\ fs \in [Paths -> Kinds]
    /\ FsOk(fs)
    /\ writable \in BOOLEAN
    /\ pc \in { "check", "create", "panicked", "announce", "construct",
                "bind", "bind_failed", "run", "serving" }

\* The server object exists (HttpServer::new has returned).
Constructed == pc \in { "bind", "bind_failed", "run", "serving" }

\* The server is bound and running, or a worker has done something.
Serving ==
    \/ pc = "serving"
    \/ \E w \in Workers : instance[w] /= None \/ resp[w] /= None

InLog(e) == \E i \in 1..Len(log) : log[i] = e

C10_RootIsDirectory ==
    (pc \in { "run", "serving" } \/ Serving) => PathIsDir(fs, args.file_dir)

\* C10 (amended): for a non-empty file_dir the server is constructed only
\* when the path exists; when main found it absent, it and all its parents
\* are directories before the server is constructed; when creation fails the
\* process panics and no server is constructed, no worker starts and no
\* request is answered.  (A path that exists as a regular file passes.)
C10_StartupOrdering ==
    /\ (Constructed /\ args.file_dir /= <<>>) => PathExists(fs, args.file_dir)
    /\ (Constructed /\ args.file_dir /= <<>> /\ InLog("warn_creating"))
          => /\ InLog("info_created")
             /\ \A n \in 1..Len(args.file_dir) :
                    PathIsDir(fs, SubSeq(args.file_dir, 1, n))
    /\ pc = "panicked"
          => /\ InLog("warn_creating") /\ ~InLog("info_created")
             /\ ~PathIsDir(fs, args.file_dir)
             /\ captured = None
             /\ ~Serving

\* The server is serving a nested root that main itself created, parents
\* included.
C10_Witness ==
    /\ pc = "serving"
    /\ InLog("info_created")
    /\ Len(args.file_dir) = 2
    /\ PathIsDir(fs, args.file_dir)
    /\ \E w \in Workers : instance[w] /= None

====
